---- MODULE Spec2Model ----
(***************************************************************************)
(* The HTTP front door of backend/app.py: a FastAPI application with two   *)
(* GET routes ("/" and "/health") wrapped in a CORSMiddleware configured   *)
(* with a two-origin allow-list, credentials, and "*" for methods and      *)
(* headers.                                                                *)
(*                                                                         *)
(* A connection is served in two steps.  Call is CORSMiddleware.__call__:  *)
(* a request without Origin is passed to the application untouched, a      *)
(* preflight (OPTIONS carrying Access-Control-Request-Method) is answered  *)
(* by the middleware itself, and any other request is passed on with the   *)
(* middleware's send wrapper installed.  App is the application proper:    *)
(* the router picks the handler (or the 404 / 405 default), and the        *)
(* response start is sent through whichever send callable Call installed.  *)
(* The middleware instance's header tables (simple_headers and             *)
(* preflight_headers) are the only state shared by connections.            *)
(***************************************************************************)
EXTENDS Naturals, FiniteSets, Sequences, TLC

\* Number of connections that may be in flight at once.
MaxInflight == 2

Conns == 1..MaxInflight

\* Python's None, for an absent header or an unset field.
None == "None"

----------------------------------------------------------------------------
\* The configuration passed to add_middleware.

\* An allow-list that lacks the second development origin.
allow_origins_first_only == {"http://localhost:3000"}

allow_origins == {"http://localhost:3000", "http://localhost:5173"}

\* The configuration with credentials left at the middleware's default.
allow_credentials_default == FALSE

allow_credentials == TRUE

allow_methods_arg == {"*"}

\* The configuration with allow_headers left at the middleware's default.
allow_headers_arg_default == {}

allow_headers_arg == {"*"}

\* What CORSMiddleware.__init__ derives from that configuration.

ALL_METHODS == {"DELETE", "GET", "HEAD", "OPTIONS", "PATCH", "POST", "PUT"}

SAFELISTED_HEADERS == {"accept", "accept-language", "content-language", "content-type"}

allow_methods == IF "*" \in allow_methods_arg THEN ALL_METHODS ELSE allow_methods_arg

allow_all_origins == "*" \in allow_origins

allow_all_headers == "*" \in allow_headers_arg

allow_headers == SAFELISTED_HEADERS \cup allow_headers_arg

preflight_explicit_allow_origin == (~allow_all_origins) \/ allow_credentials

\* self.simple_headers as __init__ builds it (no expose_headers are given).
init_simple_headers ==
    [acao |-> IF allow_all_origins THEN "*" ELSE None,
     acac |-> IF allow_credentials THEN "true" ELSE None]

\* self.preflight_headers as __init__ builds it.  acam is the set of names
\* joined into Access-Control-Allow-Methods, acah the Allow-Headers value.
init_preflight_headers ==
    [acao   |-> IF preflight_explicit_allow_origin THEN None ELSE "*",
     vary   |-> IF preflight_explicit_allow_origin THEN "Origin" ELSE None,
     acam   |-> allow_methods,
     maxage |-> "600",
     acah   |-> IF allow_all_headers THEN None ELSE "safelisted",
     acac   |-> IF allow_credentials THEN "true" ELSE None]

----------------------------------------------------------------------------
\* Requests the host may deliver.

Methods == {"GET", "OPTIONS"}

Paths == {"/", "/health", "/unknown-path"}

Origins == {None, "http://localhost:3000", "http://localhost:5173", "http://evil.example"}

\* Values of the Access-Control-Request-Method header (None: header absent).
RequestedMethods == {None, "GET", "TRACE"}

\* Values of the Access-Control-Request-Headers header (None: header absent).
RequestedHeaders == {None, "X-Custom"}

\* Any method, path and origin combine.  A GET may carry a stray
\* Access-Control-Request-Method: GET; the other preflight header values are
\* delivered on OPTIONS requests only, where the middleware reads them.
Requests ==
    {r \in [method : Methods, path : Paths, origin : Origins,
            acrm : RequestedMethods, acrh : RequestedHeaders] :
        /\ r.acrh # None => (r.acrm = "GET" /\ r.method = "OPTIONS")
        /\ r.acrm = "TRACE" => r.method = "OPTIONS"}

\* str.lower() on the header names the model uses.
Lower(h) == IF h = "X-Custom" THEN "x-custom" ELSE h

\* A response without any cross-origin header.
NoCors ==
    [acao |-> None, acac |-> None, vary |-> None,
     acam |-> {}, maxage |-> None, acah |-> None]

NoRequest ==
    [method |-> None, path |-> None, origin |-> None, acrm |-> None, acrh |-> None]

NoResponse == [status |-> 0, body |-> [text |-> << >>], headers |-> NoCors]

----------------------------------------------------------------------------
\* The application: two handlers and the router's defaults.

\* The root handler answering with the health payload.
root_health_payload == [status |-> "healthy"]

root == [message |-> "AI Project Backend is running"]

health == [status |-> "healthy"]

\* A router on which only "/" is registered.
Route_root_only(method, path) ==
    IF path = "/" THEN (IF method = "GET" THEN "root" ELSE "405")
    ELSE "404"

\* The route a request is dispatched to: a handler's name, "405" when the
\* path is registered but not for this method, "404" when it is not.
Route(method, path) ==
    IF path = "/" THEN (IF method = "GET" THEN "root" ELSE "405")
    ELSE IF path = "/health" THEN (IF method = "GET" THEN "health" ELSE "405")
    ELSE "404"

\* The response start the application produces for a request.
app(req) ==
    LET r == Route(req.method, req.path) IN
    CASE r = "root"   -> [status |-> 200, body |-> root, headers |-> NoCors]
      [] r = "health" -> [status |-> 200, body |-> health, headers |-> NoCors]
      [] r = "405"    -> [status |-> 405, body |-> [detail |-> "Method Not Allowed"],
                          headers |-> NoCors]
      [] OTHER        -> [status |-> 404, body |-> [detail |-> "Not Found"],
                          headers |-> NoCors]

----------------------------------------------------------------------------
\* CORSMiddleware.

\* An origin test that lets every origin through.
is_allowed_origin_any(origin) == TRUE

is_allowed_origin(origin) ==
    IF allow_all_origins THEN TRUE ELSE origin \in allow_origins

\* The preflight test without the check of the method.
is_preflight_any_method(req) == req.acrm # None

\* The test __call__ makes before answering a request itself.
is_preflight(req) == req.method = "OPTIONS" /\ req.acrm # None

\* preflight_response working on self.preflight_headers itself instead of a
\* copy: the origin it mirrors stays in the instance's table.
preflight_response_no_copy(self_preflight_headers, req) ==
    LET copy == self_preflight_headers
        originOk == is_allowed_origin(req.origin)
        h1 == IF originOk /\ preflight_explicit_allow_origin
              THEN [copy EXCEPT !.acao = req.origin] ELSE copy
        h2 == IF allow_all_headers /\ req.acrh # None
              THEN [h1 EXCEPT !.acah = req.acrh] ELSE h1
        failOrigin == IF originOk THEN << >> ELSE <<"origin">>
        failMethod == IF req.acrm \notin allow_methods THEN <<"method">> ELSE << >>
        failHeaders == IF (~allow_all_headers) /\ req.acrh # None
                          /\ Lower(req.acrh) \notin allow_headers
                       THEN <<"headers">> ELSE << >>
        failures == failOrigin \o failMethod \o failHeaders
    IN  [response |->
            IF failures # << >>
            THEN [status |-> 400, body |-> [text |-> <<"Disallowed CORS">> \o failures],
                  headers |-> h2]
            ELSE [status |-> 200, body |-> [text |-> <<"OK">>], headers |-> h2],
         preflight_headers |-> h2]

\* preflight_response: the response, and self.preflight_headers afterwards
\* (the method works on dict(self.preflight_headers), a copy).
preflight_response(self_preflight_headers, req) ==
    LET copy == self_preflight_headers
        originOk == is_allowed_origin(req.origin)
        h1 == IF originOk /\ preflight_explicit_allow_origin
              THEN [copy EXCEPT !.acao = req.origin] ELSE copy
        h2 == IF allow_all_headers /\ req.acrh # None
              THEN [h1 EXCEPT !.acah = req.acrh] ELSE h1
        failOrigin == IF originOk THEN << >> ELSE <<"origin">>
        failMethod == IF req.acrm \notin allow_methods THEN <<"method">> ELSE << >>
        failHeaders == IF (~allow_all_headers) /\ req.acrh # None
                          /\ Lower(req.acrh) \notin allow_headers
                       THEN <<"headers">> ELSE << >>
        failures == failOrigin \o failMethod \o failHeaders
    IN  [response |->
            IF failures # << >>
            THEN [status |-> 400, body |-> [text |-> <<"Disallowed CORS">> \o failures],
                  headers |-> h2]
            ELSE [status |-> 200, body |-> [text |-> <<"OK">>], headers |-> h2],
         preflight_headers |-> self_preflight_headers]

\* allow_explicit_origin: mirror the origin and add Vary: Origin.
allow_explicit_origin(headers, origin) ==
    [headers EXCEPT !.acao = origin, !.vary = "Origin"]

\* The send wrapper writing the mirrored origin into self.simple_headers
\* itself, so that it stays there for the next response.
send_shared(self_simple_headers, message, req) ==
    LET has_cookie == FALSE
        own == message.headers
        h0 == [own EXCEPT
                 !.acao = IF self_simple_headers.acao # None
                          THEN self_simple_headers.acao ELSE own.acao,
                 !.acac = IF self_simple_headers.acac # None
                          THEN self_simple_headers.acac ELSE own.acac]
        h1 == IF allow_all_origins /\ has_cookie
              THEN allow_explicit_origin(h0, req.origin)
              ELSE IF (~allow_all_origins) /\ is_allowed_origin(req.origin)
              THEN allow_explicit_origin(h0, req.origin)
              ELSE h0
    IN  [message |-> [message EXCEPT !.headers = h1],
         simple_headers |-> [self_simple_headers EXCEPT !.acao = h1.acao]]

\* The send wrapper leaving the router's not-found response as it is.
send_skip_not_found(self_simple_headers, message, req) ==
    LET has_cookie == FALSE
        own == message.headers
        h0 == [own EXCEPT
                 !.acao = IF self_simple_headers.acao # None
                          THEN self_simple_headers.acao ELSE own.acao,
                 !.acac = IF self_simple_headers.acac # None
                          THEN self_simple_headers.acac ELSE own.acac]
        h1 == IF allow_all_origins /\ has_cookie
              THEN allow_explicit_origin(h0, req.origin)
              ELSE IF (~allow_all_origins) /\ is_allowed_origin(req.origin)
              THEN allow_explicit_origin(h0, req.origin)
              ELSE h0
    IN  [message |-> IF message.status = 404 THEN message
                     ELSE [message EXCEPT !.headers = h1],
         simple_headers |-> self_simple_headers]

\* The middleware's send wrapper on the response start: the message sent on,
\* and self.simple_headers afterwards (headers.update copies its entries).
\* Modelled requests carry no Cookie header.
send(self_simple_headers, message, req) ==
    LET has_cookie == FALSE
        own == message.headers
        h0 == [own EXCEPT
                 !.acao = IF self_simple_headers.acao # None
                          THEN self_simple_headers.acao ELSE own.acao,
                 !.acac = IF self_simple_headers.acac # None
                          THEN self_simple_headers.acac ELSE own.acac]
        h1 == IF allow_all_origins /\ has_cookie
              THEN allow_explicit_origin(h0, req.origin)
              ELSE IF (~allow_all_origins) /\ is_allowed_origin(req.origin)
              THEN allow_explicit_origin(h0, req.origin)
              ELSE h0
    IN  [message |-> [message EXCEPT !.headers = h1],
         simple_headers |-> self_simple_headers]

----------------------------------------------------------------------------
VARIABLES conn, simple_headers, preflight_headers

vars == <<conn, simple_headers, preflight_headers>>

Idle == [pc |-> "idle", req |-> NoRequest, wrapped |-> FALSE, resp |-> NoResponse]

Init ==
    /\ conn = [c \in Conns |-> Idle]
    /\ simple_headers = init_simple_headers
    /\ preflight_headers = init_preflight_headers

\* CORSMiddleware.__call__ on a request the host delivers on connection c.
Call(c) ==
    /\ conn[c].pc = "idle"
    /\ \E req \in Requests :
        IF req.origin = None
        THEN /\ conn' = [conn EXCEPT ![c] =
                    [pc |-> "app", req |-> req, wrapped |-> FALSE, resp |-> NoResponse]]
             /\ UNCHANGED <<simple_headers, preflight_headers>>
        ELSE IF is_preflight(req)
        THEN LET out == preflight_response(preflight_headers, req) IN
             /\ conn' = [conn EXCEPT ![c] =
                    [pc |-> "done", req |-> req, wrapped |-> FALSE,
                     resp |-> out.response]]
             /\ preflight_headers' = out.preflight_headers
             /\ UNCHANGED simple_headers
        ELSE /\ conn' = [conn EXCEPT ![c] =
                    [pc |-> "app", req |-> req, wrapped |-> TRUE, resp |-> NoResponse]]
             /\ UNCHANGED <<simple_headers, preflight_headers>>

\* The application answers connection c through the send callable it was given.
App(c) ==
    /\ conn[c].pc = "app"
    /\ LET message == app(conn[c].req) IN
       IF conn[c].wrapped
       THEN LET out == send(simple_headers, message, conn[c].req) IN
            /\ conn' = [conn EXCEPT ![c].pc = "done", ![c].resp = out.message]
            /\ simple_headers' = out.simple_headers
       ELSE /\ conn' = [conn EXCEPT ![c].pc = "done", ![c].resp = message]
            /\ UNCHANGED simple_headers
    /\ UNCHANGED preflight_headers

\* The response has been transmitted; request and response are discarded.
Close(c) ==
    /\ conn[c].pc = "done"
    /\ conn' = [conn EXCEPT ![c] = Idle]
    /\ UNCHANGED <<simple_headers, preflight_headers>>

Next == \E c \in Conns : Call(c) \/ App(c) \/ Close(c)

Spec == Init /\ [][Next]_vars

----------------------------------------------------------------------------
\* The response a request receives when it is the first and only request the
\* application ever serves: the middleware's tables are as __init__ left them.
Serve(req) ==
    IF req.origin = None THEN app(req)
    ELSE IF is_preflight(req)
    THEN preflight_response(init_preflight_headers, req).response
    ELSE send(init_simple_headers, app(req), req).message

\* The same request with its Origin header removed.
WithoutOrigin(req) == [req EXCEPT !.origin = None]

Done(c) == conn[c].pc = "done"

Listed(origin) == origin \in {"http://localhost:3000", "http://localhost:5173"}

\* The response on c carries the allow-origin grant for the request's origin.
Grants(c) == conn[c].resp.headers.acao = conn[c].req.origin

----------------------------------------------------------------------------
\* C1: every GET request to "/" is answered with status 200 and the body
\* {"message": "AI Project Backend is running"}, whatever headers it carries.
C1_RootAnswer ==
    \A c \in Conns :
        (Done(c) /\ conn[c].req.method = "GET" /\ conn[c].req.path = "/")
        => /\ conn[c].resp.status = 200
           /\ conn[c].resp.body = [message |-> "AI Project Backend is running"]

\* A GET / from a foreign origin, carrying a preflight header, has been answered.
C1_Witness ==
    \E c \in Conns :
        /\ Done(c) /\ conn[c].req.method = "GET" /\ conn[c].req.path = "/"
        /\ conn[c].req.origin = "http://evil.example" /\ conn[c].req.acrm = "GET"
        /\ conn[c].resp.status = 200

\* C2: every GET request to "/health" is answered with status 200 and the
\* body {"status": "healthy"}, in every reachable state of the application.
C2_HealthAnswer ==
    \A c \in Conns :
        (Done(c) /\ conn[c].req.method = "GET" /\ conn[c].req.path = "/health")
        => /\ conn[c].resp.status = 200
           /\ conn[c].resp.body = [status |-> "healthy"]

\* A GET /health has been answered while another connection is being served.
C2_Witness ==
    \E c, d \in Conns :
        /\ c # d /\ conn[d].pc = "app"
        /\ Done(c) /\ conn[c].req.method = "GET" /\ conn[c].req.path = "/health"
        /\ conn[c].resp.body = [status |-> "healthy"]

\* C3: a response to a request from one of the two listed origins carries the
\* allow-origin grant for that origin together with the credentials header; a
\* response to a request from any other origin carries no allow-origin grant.
C3_GrantOnlyListed ==
    \A c \in Conns :
        (Done(c) /\ conn[c].req.origin # None)
        => IF Listed(conn[c].req.origin)
           THEN Grants(c) /\ conn[c].resp.headers.acac = "true"
           ELSE conn[c].resp.headers.acao = None

\* Both kinds of response are present: a grant to localhost:5173, none to evil.
C3_Witness ==
    \E c, d \in Conns :
        /\ Done(c) /\ conn[c].req.origin = "http://localhost:5173" /\ Grants(c)
        /\ Done(d) /\ conn[d].req.origin = "http://evil.example"
        /\ conn[d].resp.headers.acao = None

\* C4 as stated: a request from an origin outside the allow-list, whatever its
\* method, receives the status and body it would receive without the Origin
\* header, and no allow-origin grant.
C4_NeverRejected ==
    \A c \in Conns :
        (Done(c) /\ conn[c].req.origin # None /\ ~Listed(conn[c].req.origin))
        => /\ conn[c].resp.status = Serve(WithoutOrigin(conn[c].req)).status
           /\ conn[c].resp.body = Serve(WithoutOrigin(conn[c].req)).body
           /\ conn[c].resp.headers.acao = None

\* C4 amended: the same, for every request that is not a preflight (an OPTIONS
\* request carrying Access-Control-Request-Method).
C4_NonPreflightNeverRejected ==
    \A c \in Conns :
        (Done(c) /\ conn[c].req.origin # None /\ ~Listed(conn[c].req.origin)
            /\ ~(conn[c].req.method = "OPTIONS" /\ conn[c].req.acrm # None))
        => /\ conn[c].resp.status = Serve(WithoutOrigin(conn[c].req)).status
           /\ conn[c].resp.body = Serve(WithoutOrigin(conn[c].req)).body
           /\ conn[c].resp.headers.acao = None

\* A plain OPTIONS request from a foreign origin has received the router's 405.
C4_Witness ==
    \E c \in Conns :
        /\ Done(c) /\ conn[c].req.origin = "http://evil.example"
        /\ conn[c].req.method = "OPTIONS" /\ conn[c].req.acrm = None
        /\ conn[c].resp.status = 405

\* A preflight is granted: status 200, the origin mirrored, the requested
\* method among the allowed methods, the requested headers mirrored.
PreflightGranted(c) ==
    /\ conn[c].resp.status = 200
    /\ Grants(c)
    /\ conn[c].req.acrm \in conn[c].resp.headers.acam
    /\ conn[c].req.acrh # None => conn[c].resp.headers.acah = conn[c].req.acrh

\* C5 as stated: a preflight from a listed origin is granted for every
\* requested method and every requested headers.
C5_PreflightAnyMethod ==
    \A c \in Conns :
        (Done(c) /\ conn[c].req.method = "OPTIONS" /\ conn[c].req.acrm # None
            /\ Listed(conn[c].req.origin))
        => PreflightGranted(c)

\* C5 amended: a preflight from a listed origin is granted for every requested
\* method among DELETE, GET, HEAD, OPTIONS, PATCH, POST and PUT, and every
\* requested headers.
C5_PreflightStandardMethods ==
    \A c \in Conns :
        (Done(c) /\ conn[c].req.method = "OPTIONS" /\ Listed(conn[c].req.origin)
            /\ conn[c].req.acrm \in
                 {"DELETE", "GET", "HEAD", "OPTIONS", "PATCH", "POST", "PUT"})
        => PreflightGranted(c)

\* OPTIONS / from localhost:3000 asking for GET with a custom header is granted.
C5_Witness ==
    \E c \in Conns :
        /\ Done(c) /\ conn[c].req.method = "OPTIONS" /\ conn[c].req.path = "/"
        /\ conn[c].req.origin = "http://localhost:3000"
        /\ conn[c].req.acrm = "GET" /\ conn[c].req.acrh = "X-Custom"
        /\ PreflightGranted(c)

\* C6: however requests are interleaved, each response is the one the request
\* would receive as the first and only request, and the tables the
\* connections share are as they were at start.
C6_NoStateDrift ==
    /\ simple_headers = init_simple_headers
    /\ preflight_headers = init_preflight_headers
    /\ \A c \in Conns : Done(c) => conn[c].resp = Serve(conn[c].req)

\* Two requests to the same route, one from a listed origin and one from a
\* foreign origin, have both been answered.
C6_Witness ==
    \E c, d \in Conns :
        /\ c # d /\ Done(c) /\ Done(d)
        /\ conn[c].req.method = "GET" /\ conn[d].req.method = "GET"
        /\ conn[c].req.path = conn[d].req.path /\ conn[c].req.path # "/unknown-path"
        /\ conn[c].req.origin = "http://localhost:3000"
        /\ conn[d].req.origin = "http://evil.example"
        /\ Grants(c) /\ ~Grants(d)

\* C7: two GET requests to the same route receive the same status and the
\* same body, however their headers differ.
C7_InputIndependent ==
    \A c, d \in Conns :
        (Done(c) /\ Done(d)
            /\ conn[c].req.method = "GET" /\ conn[d].req.method = "GET"
            /\ conn[c].req.path = conn[d].req.path
            /\ conn[c].req.path \in {"/", "/health"})
        => /\ conn[c].resp.status = conn[d].resp.status
           /\ conn[c].resp.body = conn[d].resp.body

\* Two answered GET requests to one route differ in Origin and in the
\* Access-Control-Request-Method header.
C7_Witness ==
    \E c, d \in Conns :
        /\ Done(c) /\ Done(d)
        /\ conn[c].req.method = "GET" /\ conn[d].req.method = "GET"
        /\ conn[c].req.path = "/health" /\ conn[d].req.path = "/health"
        /\ conn[c].req.origin = None /\ conn[d].req.origin = "http://evil.example"
        /\ conn[c].req.acrm = None /\ conn[d].req.acrm = "GET"
        /\ conn[c].resp.body = conn[d].resp.body

\* C8: a GET from a listed origin receives the grant headers on every path:
\* with the 200 of "/" and "/health" and with the router's 404 elsewhere.
C8_EveryRoute ==
    \A c \in Conns :
        (Done(c) /\ conn[c].req.method = "GET" /\ Listed(conn[c].req.origin))
        => /\ Grants(c)
           /\ conn[c].resp.headers.acac = "true"
           /\ conn[c].resp.status =
                 (IF conn[c].req.path \in {"/", "/health"} THEN 200 ELSE 404)

\* GET /unknown-path from localhost:3000 has got a 404 that carries the grant.
C8_Witness ==
    \E c \in Conns :
        /\ Done(c) /\ conn[c].req.method = "GET" /\ conn[c].req.path = "/unknown-path"
        /\ conn[c].req.origin = "http://localhost:3000"
        /\ conn[c].resp.status = 404 /\ Grants(c)

\* C9: a response that carries the allow-origin grant also carries
\* Access-Control-Allow-Credentials: true.
C9_GrantPermitsCredentials ==
    \A c \in Conns :
        (Done(c) /\ conn[c].resp.headers.acao # None)
        => conn[c].resp.headers.acac = "true"

\* A simple response and a preflight response both carry the grant.
C9_Witness ==
    \E c, d \in Conns :
        /\ Done(c) /\ conn[c].wrapped /\ conn[c].resp.headers.acao # None
        /\ Done(d) /\ conn[d].req.method = "OPTIONS" /\ conn[d].req.acrm # None
        /\ conn[d].resp.headers.acao # None

\* C10: the allow-origin grant, when present, is the Origin of the request
\* being answered and one of the two listed origins, never "*"; a request
\* without Origin receives no grant.
C10_GrantIsRequesterOrigin ==
    \A c \in Conns :
        Done(c) =>
            /\ conn[c].resp.headers.acao # None
               => /\ conn[c].resp.headers.acao = conn[c].req.origin
                  /\ Listed(conn[c].resp.headers.acao)
                  /\ conn[c].resp.headers.acao # "*"
            /\ conn[c].req.origin = None => conn[c].resp.headers.acao = None

\* A preflight from a foreign origin is answered after one from a listed
\* origin was granted, and a request without Origin has been answered.
C10_Witness ==
    \E c, d \in Conns :
        /\ Done(c) /\ conn[c].req.origin = "http://evil.example"
        /\ conn[c].req.method = "OPTIONS" /\ conn[c].req.acrm # None
        /\ conn[c].resp.headers.acao = None
        /\ Done(d) /\ conn[d].req.origin = "http://localhost:3000"
        /\ conn[d].req.method = "OPTIONS" /\ conn[d].req.acrm # None /\ Grants(d)

====
